---- MODULE Spec2Model ----
(***************************************************************************)
(* A model of bjsonrpc's Connection (src/bjsonrpc/connection.py): the      *)
(* request table, the object registry, the dispatcher, the proxy envelope, *)
(* the framer and the socket lock.                                         *)
(*                                                                         *)
(* JSON / Python values are tagged records: [t |-> "null"] is None / null, *)
(* [t |-> "int", v |-> n] an integer, [t |-> "str", v |-> s] a string,     *)
(* [t |-> "instance", v |-> o] a local Python object that has get_method,  *)
(* [t |-> "__remoteobject__", v |-> name] the hint emitted for it,         *)
(* [t |-> "tuple" / "list", v |-> seq] a sequence and                      *)
(* [t |-> "dict", keys |-> "str" / "unicode", v |-> function] a mapping.   *)
(* A method name is the sequence of its '.'-separated segments.            *)
(***************************************************************************)
EXTENDS Integers, Sequences, FiniteSets, TLC

VARIABLES
    id,             \* Connection._id
    requests,       \* Connection._requests: request id -> Request (its handle)
    response,       \* Request.response of every Request created, by handle
    issued,         \* Request.request_id of every Request created, by handle
    objects,        \* Connection._objects: instance name -> instance
    remoteobjects,  \* obj.__remoteobjects__[self] of every instance ("" = unset)
    handler,        \* Connection.handler: the root handler ("unset": no such attribute)
    sent,           \* the frames handed to Connection.write by the last operation
    last,           \* the last operation (or the batch being dispatched) and its input
    pk,             \* one call followed from the caller's arguments to the handler's
    buffer,         \* Connection._buffer
    timeout,        \* the timeout set on the socket (self._sck.gettimeout())
    lock,           \* Connection.scklock: the thread holding it ("" = free)
    net,            \* the bytes the socket has received and recv has not returned yet
    peer,           \* "open", "closed" once the peer has shut the stream down, or
                    \* "reset" when it closed with bytes of the connection unread
    sck,            \* the socket: "open", or "closed" once close() was called on it
    sckclass,       \* the class of the socket the connection was given
    stream,         \* every byte the peer has sent
    lines,          \* the lines read_line has returned
    rd,             \* the reading thread: where it is and what its last call gave
    wbuffer,        \* Connection._wbuffer
    wire,           \* the bytes the socket has accepted from send
    th,             \* the threads that call write and read: where each one is
    order,          \* the lines written, in the order their writes got the lock
    maxtimeout      \* Connection._maxtimeout: operation -> maximum timeout

connvars == <<id, requests, response, issued, objects, remoteobjects, handler, sent, last>>

sockvars == <<buffer, timeout, lock, net, peer, sck, sckclass, stream, lines, rd>>

writevars == <<wbuffer, wire, th, order>>

vars == <<connvars, pk, sockvars, writevars, maxtimeout>>

-----------------------------------------------------------------------------
(* Bounds of the model *)

MaxId == 3          \* calls and serializations stop when _id reaches it
MaxArgs == 2        \* positional arguments of a call
MaxBytes == 4       \* bytes the peer sends
MaxWrites == 1      \* calls of write by one thread
MaxSeconds == 3     \* the timeouts and maxima asked for are None or 0..MaxSeconds
MaxGets == 2        \* calls of get_id by one thread

-----------------------------------------------------------------------------
(* Constants of the program *)

MaxTimeoutRead == 5     \* Connection._maxtimeout['read']
MaxTimeoutWrite == 5    \* Connection._maxtimeout['write']
RetryTimeout == 5       \* _readn: self._sck.settimeout(5)
RecvSize == 2048        \* _readn: self._sck.recv(2048)

-----------------------------------------------------------------------------
(* Values *)

JNull == [t |-> "null"]
JInt(n) == [t |-> "int", v |-> n]
JStr(s) == [t |-> "str", v |-> s]
Instance(o) == [t |-> "instance", v |-> o]
RemoteObjectHint(name) == [t |-> "__remoteobject__", v |-> name]
Tuple(s) == [t |-> "tuple", v |-> s]
List(s) == [t |-> "list", v |-> s]
Dict(kt, f) == [t |-> "dict", keys |-> kt, v |-> f]

EmptyDict == Dict("str", <<>>)

\* The local instances a handler can return or pass, and their classes.
Objs == {"x", "y"}
ClassOf(o) == "List"
NoName == ""

-----------------------------------------------------------------------------
(* The connection as a value: what the operations read and write *)

Conn ==
    [id |-> id, requests |-> requests, response |-> response, issued |-> issued,
     objects |-> objects, remoteobjects |-> remoteobjects, handler |-> handler,
     sent |-> <<>>, sck |-> sck, sckclass |-> sckclass]

\* the handler factories a connection is built with: a handler class, a
\* handler class whose instances are false (one that defines __len__, with
\* nothing in it), or None, the default
HandlerFactories == {"Handler", "EmptyHandler", "None"}

\* Connection.__init__, lines 204-206: self.handler is set only when a
\* factory was given
new_handler(handler_factory) ==
    CASE handler_factory = "Handler" -> "handler"
      [] handler_factory = "EmptyHandler" -> "empty"
      [] OTHER -> "unset"

\* Connection.__init__ with the factory handler_factory
Connection(handler_factory) ==
    /\ handler = new_handler(handler_factory)
    /\ id = 0
    /\ requests = <<>>
    /\ response = <<>>
    /\ issued = <<>>
    /\ objects = <<>>
    /\ remoteobjects = [o \in Objs |-> NoName]
    /\ sent = <<>>
    /\ last = [op |-> "init"]

\* a connection built with a handler class
InitConn == Connection("Handler")

\* get_id without the increment
get_id_noinc(c) == c

\* Connection.get_id: self._id += 1; return self._id (the value is c'.id)
get_id(c) == [c EXCEPT !.id = c.id + 1]

\* str.lower() on the class names of the model
Lower(s) == CASE s = "List" -> "list" [] OTHER -> s

HexDigit(d) ==
    CASE d = 0 -> "0" [] d = 1 -> "1" [] d = 2 -> "2" [] d = 3 -> "3"
      [] d = 4 -> "4" [] d = 5 -> "5" [] d = 6 -> "6" [] d = 7 -> "7"
      [] d = 8 -> "8" [] d = 9 -> "9" [] d = 10 -> "a" [] d = 11 -> "b"
      [] d = 12 -> "c" [] d = 13 -> "d" [] d = 14 -> "e" [] d = 15 -> "f"

RECURSIVE Hex(_)
Hex(n) == IF n < 16 THEN HexDigit(n) ELSE Hex(n \div 16) \o HexDigit(n % 16)

RECURSIVE ZeroPad(_, _)
ZeroPad(s, w) == IF Len(s) >= w THEN s ELSE ZeroPad("0" \o s, w)

\* an instance name that leaves the id out
InstanceName_noid(classname, n) == Lower(classname) \o "_" \o "0000"

\* "%s_%04x" % (classname.lower(), n)
InstanceName(classname, n) == Lower(classname) \o "_" \o ZeroPad(Hex(n), 4)

\* lines 343-345: enter obj in the registry under instancename
register(c, obj, instancename) ==
    [c |-> [c EXCEPT !.objects = (instancename :> obj) @@ c.objects,
                     !.remoteobjects[obj] = instancename],
     out |-> RemoteObjectHint(instancename)]

\* lines 341-342, with c1 the connection after get_id()
dump_new(c1, obj) == register(c1, obj, InstanceName(ClassOf(obj), c1.id))

\* Connection._dump_remoteobject: [c |-> the connection after, out |-> the hint]
dump_remoteobject(c, obj) ==
    IF c.remoteobjects[obj] # NoName
    THEN [c |-> c, out |-> RemoteObjectHint(c.remoteobjects[obj])]
    ELSE dump_new(get_id(c), obj)

\* json.dumps(value, self) on one value: Connection.dump_object is the fallback
\* for a value JSON cannot represent.
dump_object(c, value) ==
    IF value.t = "instance" THEN dump_remoteobject(c, value.v)
    ELSE [c |-> c, out |-> value]

\* the values of a sequence, encoded left to right
RECURSIVE dump_seq(_, _)
dump_cons(x, r) == [c |-> r.c, out |-> <<x>> \o r.out]
dump_rest(h, rest) == dump_cons(h.out, dump_seq(h.c, rest))
dump_seq(c, s) ==
    IF s = <<>> THEN [c |-> c, out |-> <<>>]
    ELSE dump_rest(dump_object(c, Head(s)), Tail(s))

set_result(data, r) == [c |-> r.c, out |-> [data EXCEPT !.result = r.out]]
set_params(data, r) == [c |-> r.c, out |-> [data EXCEPT !.params = List(r.out)]]

dump_result(c, data) ==
    IF "result" \in DOMAIN data THEN set_result(data, dump_object(c, data.result))
    ELSE [c |-> c, out |-> data]

dump_params(p) ==
    IF "params" \in DOMAIN p.out /\ p.out.params.t \in {"tuple", "list"}
    THEN set_params(p.out, dump_seq(p.c, p.out.params.v))
    ELSE p

\* json.dumps(data, self) of an envelope: the values under result and params
\* are encoded in turn; a tuple is written as a JSON array.
dumps(c, data) == dump_params(dump_result(c, data))

\* Connection.write as the dispatcher and the proxy see it: the frame is
\* handed to write.
write(c, frame) == [c EXCEPT !.sent = Append(c.sent, frame)]

\* self.write(json.dumps(...)) with d the outcome of dumps
send(d) == write(d.c, d.out)

-----------------------------------------------------------------------------
(* The handler capability: get_method(name) and the methods it resolves to. *)
(* The root handler exposes ping(), getx(), gety(), fail(), crash() and      *)
(* exit(); an exposed instance exposes add(v).  A name that is not exposed  *)
(* makes get_method raise ServerError.  fail() raises ServerError, crash()  *)
(* raises ValueError and exit() raises SystemExit, which does not derive    *)
(* from Exception.                                                          *)

Return(v) == [kind |-> "return", value |-> v]
ServerError(msg) == [kind |-> "ServerError", msg |-> msg]
OtherError(name, msg) == [kind |-> "Exception", etype |-> name, msg |-> msg]
BaseError(name) == [kind |-> "BaseException", etype |-> name]

\* the exceptions of the model that do not derive from Exception
BaseExceptions == {"SystemExit"}

\* req_object.get_method(req_method)(*req_args, **req_kwargs)
Invoke(req_object, req_method, req_args, req_kwargs) ==
    LET nargs == Len(req_args.v) + Cardinality(DOMAIN req_kwargs.v)
    IN IF req_object \in {"handler", "empty"}
       THEN CASE req_method = "ping" ->
                   IF nargs = 0 THEN Return(JStr("pong"))
                   ELSE OtherError("TypeError", "ping() takes no arguments")
              [] req_method = "getx" -> Return(Instance("x"))
              [] req_method = "gety" -> Return(Instance("y"))
              [] req_method = "fail" -> ServerError("failed")
              [] req_method = "crash" -> OtherError("ValueError", "boom")
              [] req_method = "exit" -> BaseError("SystemExit")
              [] OTHER -> ServerError("no such method")
       ELSE CASE req_method = "add" ->
                   IF nargs = 1 THEN Return(JNull)
                   ELSE OtherError("TypeError", "add() takes one argument")
              [] OTHER -> ServerError("no such method")

-----------------------------------------------------------------------------
(* Connection._dispatch_method *)

\* lines 354-362: the positional and keyword arguments of a request
Unpack(request) ==
    LET params == IF "params" \in DOMAIN request THEN request.params ELSE List(<<>>)
        req_args == IF params.t = "dict" THEN List(<<>>) ELSE params
        kw == IF params.t = "dict" THEN params
              ELSE IF "kwparams" \in DOMAIN request THEN request.kwparams
              ELSE EmptyDict
        req_kwargs == IF DOMAIN kw.v # {} THEN Dict("str", kw.v) ELSE kw
    IN [args |-> req_args, kwargs |-> req_kwargs]

\* What an operation of the dispatcher gives back: the connection after it, the
\* response to write (JNull: none) and the exception it raised ("": none).
Done(c, resp) == [c |-> c, response |-> resp, raised |-> ""]
Raise(c, exc) == [c |-> c, response |-> JNull, raised |-> exc]

\* the classes of socket a connection is given: socket.socket, which on
\* close() replaces its methods by one that raises socket.error (bad file
\* descriptor), and _socket.socket, which keeps its timeout when it is closed:
\* its settimeout and gettimeout return, its recv and send raise socket.error
SocketClasses == {"socket.socket", "_socket.socket"}

\* whether self._sck.settimeout and self._sck.gettimeout raise socket.error
timeout_raises(s, class) == s = "closed" /\ class = "socket.socket"

\* how self.write(...) ends, with c the connection the frame was handed to:
\* settimeout raises socket.error (lines 640, 632), or write_line runs and
\* write returns whatever send did (lines 581-599, 642-648)
written(c, resp) ==
    IF timeout_raises(c.sck, c.sckclass) THEN Raise(c, "socket.error") ELSE Done(c, resp)

\* the reply with ServerError answered whatever the id
reply_always(c, outcome, req_id) ==
    CASE outcome.kind = "BaseException" -> Raise(c, outcome.etype)
      [] outcome.kind = "ServerError" ->
            Done(c, [result |-> JNull, error |-> JStr(outcome.msg), id |-> req_id])
      [] outcome.kind = "Exception" /\ req_id # JNull ->
            Done(c, [result |-> JNull,
                     error |-> JStr(outcome.etype \o ": " \o outcome.msg),
                     id |-> req_id])
      [] req_id = JNull -> Done(c, JNull)
      [] OTHER -> Done(c, [result |-> outcome.value, error |-> JNull, id |-> req_id])

\* lines 382-417: the reply for the outcome of the method; neither except
\* clause takes an exception that does not derive from Exception
reply(c, outcome, req_id) ==
    CASE outcome.kind = "BaseException" -> Raise(c, outcome.etype)
      [] outcome.kind = "ServerError" /\ req_id # JNull ->
            Done(c, [result |-> JNull, error |-> JStr(outcome.msg), id |-> req_id])
      [] outcome.kind = "Exception" /\ req_id # JNull ->
            Done(c, [result |-> JNull,
                     error |-> JStr(outcome.etype \o ": " \o outcome.msg),
                     id |-> req_id])
      [] req_id = JNull -> Done(c, JNull)
      [] OTHER -> Done(c, [result |-> outcome.value, error |-> JNull, id |-> req_id])

\* bool(req_object), line 378; the instances of the model are true
Truth(req_object) == req_object # "empty"

\* lines 415-417 when the method was not called: result was never assigned
unbound(c, req_id) ==
    IF req_id = JNull THEN Done(c, JNull) ELSE Raise(c, "UnboundLocalError")

\* lines 378-417: invoke the method on req_object, if it is true, and build
\* the reply
dispatch_call(c, req_object, req_method, req_id, un) ==
    IF Truth(req_object)
    THEN reply(c, Invoke(req_object, req_method, un.args, un.kwargs), req_id)
    ELSE unbound(c, req_id)

\* line 376: req_object = self.handler, an attribute that is not there when
\* the connection was built without a factory
dispatch_root(c, req_method, req_id, un) ==
    IF c.handler = "unset" THEN Raise(c, "AttributeError")
    ELSE dispatch_call(c, c.handler, req_method, req_id, un)

dispatch_method(c, request) ==
    LET req_id == IF "id" \in DOMAIN request THEN request.id ELSE JNull
        req_method == request.method
        un == Unpack(request)
    IN IF Len(req_method) > 1
       THEN LET objectname == req_method[1]
                name == req_method[2]
            IN IF objectname \notin DOMAIN c.objects
               THEN Raise(c, "ValueError")
               ELSE IF name = "__delete__"
               THEN LET c1 == [c EXCEPT !.objects =
                                  [n \in DOMAIN c.objects \ {objectname} |-> c.objects[n]]]
                    IN IF req_id = JNull THEN Done(c1, JNull)
                       ELSE Done(c1, [result |-> JNull, error |-> JNull, id |-> req_id])
               ELSE dispatch_call(c, c.objects[objectname], name, req_id, un)
       ELSE dispatch_root(c, req_method[1], req_id, un)

-----------------------------------------------------------------------------
(* Connection.dispatch_item and Connection.read_and_dispatch *)

\* Request.setresponse(item): the waiter gets the item
setresponse(c, handle, item) == [c EXCEPT !.response[handle] = item]

\* the response path completing the oldest pending request, whatever the id
dispatch_response_fifo(c, item) ==
    IF ~(item.id.t = "int" /\ item.id.v \in DOMAIN c.requests)
    THEN Raise(c, "AssertionError")
    ELSE LET k == CHOOSE k \in DOMAIN c.requests : \A j \in DOMAIN c.requests : k <= j
         IN Done(setresponse([c EXCEPT !.requests =
                                 [j \in DOMAIN c.requests \ {k} |-> c.requests[j]]],
                             c.requests[k], item), JNull)

\* lines 490-494: the response path
dispatch_response(c, item) ==
    IF ~(item.id.t = "int" /\ item.id.v \in DOMAIN c.requests)
    THEN Raise(c, "AssertionError")
    ELSE LET request == c.requests[item.id.v]
             c1 == [c EXCEPT !.requests =
                       [k \in DOMAIN c.requests \ {item.id.v} |-> c.requests[k]]]
         IN Done(setresponse(c1, request, item), JNull)

\* lines 502-508: write the response, if there is one
write_response(r) ==
    IF r.raised # "" \/ r.response = JNull THEN r
    ELSE written(send(dumps(r.c, r.response)), r.response)

dispatch_item(c, item0) ==
    LET item == IF "id" \in DOMAIN item0 THEN item0 ELSE item0 @@ [id |-> JNull]
    IN IF "method" \in DOMAIN item THEN write_response(dispatch_method(c, item))
       ELSE IF "result" \in DOMAIN item THEN dispatch_response(c, item)
       ELSE write_response(Done(c, [result |-> JNull,
                                    error |-> JStr("Unknown format"),
                                    id |-> item.id]))

\* the batch loop taking the items last to first
batch_item_rev(items, k) == items[Len(items) + 1 - k]

\* lines 463-464: the item the loop over a batch takes in its k-th round
batch_item(items, k) == items[k]

\* lines 470-472: except Exception takes every exception but those that do
\* not derive from Exception; what is left is the exception that leaves
\* read_and_dispatch ("": none)
uncaught(exc) == IF exc \in BaseExceptions THEN exc ELSE ""

\* lines 460-474 on a parsed frame that is an item, a list without items or
\* another value: [c |-> the connection after, ok |-> the value returned
\* (FALSE also when nothing is returned), raised |-> the exception raised]
dispatched(r) == [c |-> r.c, ok |-> r.raised = "", raised |-> uncaught(r.raised)]

read_and_dispatch(c, frame) ==
    CASE frame.t = "dict" -> dispatched(dispatch_item(c, frame.v))
      [] frame.t = "list" -> [c |-> c, ok |-> TRUE, raised |-> ""]
      [] OTHER -> [c |-> c, ok |-> FALSE, raised |-> ""]

-----------------------------------------------------------------------------
(* Connection.proxy and the Request it creates *)

\* the envelope with the keyword arguments always under params
proxy_data_overwrite(data, args, kwargs) ==
    LET d1 == IF Len(args) > 0 THEN data @@ [params |-> Tuple(args)] ELSE data
    IN IF Cardinality(DOMAIN kwargs) > 0
       THEN [params |-> Dict("str", kwargs)] @@ d1
       ELSE d1

\* lines 528-535: the parameter packing rule
proxy_data(data, args, kwargs) ==
    LET d1 == IF Len(args) > 0 THEN data @@ [params |-> Tuple(args)] ELSE data
    IN IF Cardinality(DOMAIN kwargs) > 0
       THEN IF Len(args) = 0 THEN d1 @@ [params |-> Dict("str", kwargs)]
            ELSE d1 @@ [kwparams |-> Dict("str", kwargs)]
       ELSE d1

\* Connection.addrequest
addrequest(c, request_id, handle) ==
    IF request_id \in DOMAIN c.requests THEN Raise(c, "AssertionError")
    ELSE Done([c EXCEPT !.requests = (request_id :> handle) @@ c.requests], JNull)

\* Request(conn, data): a new pending request, entered in the table, then sent
new_request(c, data) ==
    [c EXCEPT !.issued = Append(c.issued, data.id.v),
              !.response = Append(c.response, JNull)]

send_request(a, data) ==
    IF a.raised # "" THEN a ELSE written(send(dumps(a.c, data)), JNull)

Request(c, data) ==
    send_request(addrequest(new_request(c, data), data.id.v, Len(c.issued) + 1), data)

\* lines 537-548
proxy_send(c1, sync_type, data) ==
    IF sync_type = 2 THEN written(send(dumps(c1, data)), JNull) ELSE Request(c1, data)

\* lines 522-535, with c1 the connection after get_id()
proxy_build(c1, sync_type, name, args, kwargs) ==
    proxy_send(c1, sync_type,
               proxy_data(IF sync_type \in {0, 1}
                          THEN [method |-> name, id |-> JInt(c1.id)]
                          ELSE [method |-> name], args, kwargs))

proxy(c, sync_type, name, args, kwargs) ==
    proxy_build(IF sync_type \in {0, 1} THEN get_id(c) ELSE c,
                sync_type, name, args, kwargs)

-----------------------------------------------------------------------------
(* The connection driven by one thread: outbound calls and inbound frames.  *)
(* A batch is dispatched one item at a time: between two items the replies  *)
(* written so far are out and the method of the next item has not run.      *)

Commit(c) ==
    /\ id' = c.id
    /\ requests' = c.requests
    /\ response' = c.response
    /\ issued' = c.issued
    /\ objects' = c.objects
    /\ remoteobjects' = c.remoteobjects
    /\ sent' = c.sent
    /\ UNCHANGED handler

\* the arguments of the calls made: nothing, or local instances
CallArgs == {<<>>} \cup {<<Instance(o)>> : o \in Objs}

\* the instances a tuple of arguments will have to allocate a name for
NewInstances(c, args) ==
    {args[i].v : i \in {j \in DOMAIN args :
                          args[j].t = "instance" /\ c.remoteobjects[args[j].v] = NoName}}

\* the thread is inside read_and_dispatch, between two items of a batch
InBatch == last.op = "batch"

\* proxy(sync_type, "ping", args, {}), on an open or on a closed connection
Call(sync_type, args) ==
    /\ ~InBatch
    /\ id + 1 + Cardinality(NewInstances(Conn, args)) <= MaxId
    /\ \E r \in {proxy(Conn, sync_type, <<"ping">>, args, <<>>)} :
          /\ Commit(r.c)
          /\ last' = [op |-> "call", sync_type |-> sync_type, args |-> args,
                      raised |-> r.raised]
    /\ UNCHANGED <<pk, maxtimeout, sockvars, writevars>>

\* the names the peer may use: those it was given, and one it was never given
PeerNames == {remoteobjects[o] : o \in Objs} \ {NoName}

\* the ids the peer gives its requests: null for a notification, 0 and 1
PeerIds == {JNull, JInt(0), JInt(1)}

RootMethods ==
    {<<m>> : m \in {"ping", "getx", "gety", "fail", "crash", "exit", "nosuch"}}

ObjectMethods ==
    {<<n, m>> : n \in PeerNames \cup {"list_ffff"}, m \in {"add", "__delete__", "nosuch"}}

Methods == RootMethods \cup ObjectMethods

Invocations ==
    {[method |-> m, id |-> i] : m \in Methods, i \in PeerIds}
    \cup {[method |-> <<m>>] : m \in {"ping", "fail"}}
    \cup {[method |-> m, id |-> i, params |-> List(<<JInt(1)>>)] :
             m \in {<<"ping">>} \cup {<<n, "add">> : n \in PeerNames}, i \in PeerIds}

Responses ==
    {[result |-> JStr("pong"), error |-> JNull, id |-> JInt(n)] : n \in 1..MaxId}
    \cup {[result |-> JNull, error |-> JStr("failed"), id |-> JInt(n)] : n \in 1..MaxId}
    \cup {[result |-> JStr("pong"), error |-> JNull]}

Items == Invocations \cup Responses \cup {[error |-> JNull], [id |-> JInt(0)]}

\* the batches the peer sends: two calls; a call on a name that is not in the
\* registry followed by a call; two calls with a notification between them
Batches ==
    {<<[method |-> <<"ping">>, id |-> JInt(0)], [method |-> <<"fail">>, id |-> JInt(1)]>>,
     <<[method |-> <<"list_ffff", "add">>, id |-> JInt(0)],
       [method |-> <<"ping">>, id |-> JInt(1)]>>,
     <<[method |-> <<"fail">>, id |-> JInt(1)], [method |-> <<"ping">>],
       [method |-> <<"ping">>, id |-> JInt(0)]>>}

\* a parsed frame: one item, a batch of items, or another JSON value
Frames ==
    {Dict("unicode", it) : it \in Items}
    \cup {List(b) : b \in Batches}
    \cup {JInt(5)}

\* read_and_dispatch has returned ok for the frame, or raised
RecvDone(frame, ok, raised) ==
    [op |-> "recv", frame |-> frame, ok |-> ok, raised |-> raised]

\* the k-th round of the loop over a batch (lines 463-464), with c the
\* connection before it: an exception ends the loop and read_and_dispatch
\* returns False (lines 470-472) or lets it through, the last item ends it
\* with True (line 474)
BatchItem(c, frame, k) ==
    \E r \in {dispatch_item(c, batch_item(frame.v, k))} :
        /\ r.c.id <= MaxId
        /\ Commit(r.c)
        /\ last' = IF r.raised # "" THEN RecvDone(frame, FALSE, uncaught(r.raised))
                   ELSE IF k = Len(frame.v) THEN RecvDone(frame, TRUE, "")
                   ELSE [op |-> "batch", frame |-> frame, done |-> k]

\* read_and_dispatch on the frame read, a single item, another value, or a
\* batch up to the end of its first item.  On a closed socket.socket read
\* raises before any frame is read (settimeout, lines 655, 632); on a closed
\* _socket.socket _readn still returns a line that is in self._buffer (lines
\* 668-672, 706-709)
Receive(frame) ==
    /\ ~InBatch
    /\ ~timeout_raises(sck, sckclass)
    /\ IF frame.t = "list" /\ frame.v # <<>>
       THEN BatchItem(Conn, frame, 1)
       ELSE \E r \in {read_and_dispatch(Conn, frame)} :
               /\ r.c.id <= MaxId
               /\ Commit(r.c)
               /\ last' = RecvDone(frame, r.ok, r.raised)
    /\ UNCHANGED <<pk, maxtimeout, sockvars, writevars>>

\* the loop over the batch goes on with its next item
ReceiveNext ==
    /\ InBatch
    /\ BatchItem([Conn EXCEPT !.sent = sent], last.frame, last.done + 1)
    /\ UNCHANGED <<pk, maxtimeout, sockvars, writevars>>

\* close() that leaves the socket as it is
close_skip(s) == s

\* Connection.close: the socket is shut down and closed, and that is all
close(s) == "closed"

\* a thread calls close(), while serve is running on another thread or not
Close ==
    /\ sck = "open"
    /\ sck' = close(sck)
    /\ sent' = <<>>
    /\ last' = [op |-> "close", serving |-> rd.op = "serve" /\ rd.pc # "idle"]
    /\ UNCHANGED <<id, requests, response, issued, objects, remoteobjects, handler>>
    /\ UNCHANGED <<pk, maxtimeout, buffer, timeout, lock, net, peer, sckclass, stream, lines, rd, writevars>>

PackOff == pk = [pc |-> "off"]

\* the threads that use the connection: "r" reads, dispatches and writes the
\* replies, the others issue proxy calls
Threads == {"r", "t1", "t2"}

\* a thread that has not called anything yet: where it is (pc), the calls it
\* has made (n), what its last write returned (ret), the line it writes
\* (data), the timeout its read asked for (t0), what it is dispatching (job),
\* the value of self._id it has read in get_id (tmp) and the values its
\* calls of get_id have returned (got)
Thread ==
    [pc |-> "idle", n |-> 0, ret |-> "none", data |-> <<>>, t0 |-> JNull,
     job |-> "none", tmp |-> 0, got |-> <<>>]

\* Connection._maxtimeout as the class defines it
MaxTimeout == [read |-> JInt(MaxTimeoutRead), write |-> JInt(MaxTimeoutWrite)]

\* Connection.__init__ on a connected socket, nothing received yet
InitSock ==
    /\ buffer = <<>>
    /\ timeout = JNull
    /\ lock = ""
    /\ net = <<>>
    /\ peer = "open"
    /\ sck = "open"
    /\ sckclass \in SocketClasses
    /\ stream = <<>>
    /\ lines = <<>>
    /\ rd = [pc |-> "idle", op |-> "none", ret |-> [kind |-> "none"]]
    /\ wbuffer = <<>>
    /\ wire = <<>>
    /\ th = [t \in Threads |-> Thread]
    /\ order = <<>>
    /\ maxtimeout = MaxTimeout

Init == InitConn /\ PackOff /\ InitSock

Next ==
    \/ \E sync_type \in {0, 1, 2}, args \in CallArgs : Call(sync_type, args)
    \/ \E frame \in Frames : Receive(frame)
    \/ ReceiveNext
    \/ (~InBatch /\ Close)

Spec == Init /\ [][Next]_vars

\* the same operations on a connection built with any handler factory
InitFactory ==
    /\ \E handler_factory \in HandlerFactories : Connection(handler_factory)
    /\ PackOff
    /\ InitSock

SpecFactory == InitFactory /\ [][Next]_vars

-----------------------------------------------------------------------------
(* One call from proxy() to the handler: the envelope proxy builds is encoded, *)
(* decoded by the peer and unpacked by its _dispatch_method.                   *)

ArgValues == {JInt(1), JStr("a")}
KwKeys == {"a", "b"}

ArgTuples == UNION {[1..n -> ArgValues] : n \in 0..MaxArgs}
KwDicts == UNION {[K -> ArgValues] : K \in SUBSET KwKeys}

\* json.loads of a mapping: its keys come back as unicode
loads_dict(d) == IF DOMAIN d.v = {} THEN d ELSE Dict("unicode", d.v)

\* json.loads(data, self) of an envelope
loads(frame) ==
    [k \in DOMAIN frame |->
        IF k \in {"params", "kwparams"} /\ frame[k].t = "dict"
        THEN loads_dict(frame[k]) ELSE frame[k]]

\* req_function(*req_args, **req_kwargs): what the method is called with
Called(un) == [args |-> un.args.v, kwargs |-> un.kwargs]

InitPack ==
    /\ InitConn
    /\ InitSock
    /\ \E a \in ArgTuples, k \in KwDicts, s \in {0, 1, 2} :
          pk = [pc |-> "call", args |-> a, kwargs |-> k, sync_type |-> s]

\* the caller: proxy(sync_type, "getabc", args, kwargs)
PackProxy ==
    /\ pk.pc = "call"
    /\ \E r \in {proxy(Conn, pk.sync_type, <<"getabc">>, pk.args, pk.kwargs)} :
          /\ Commit(r.c)
          /\ last' = [op |-> "call", sync_type |-> pk.sync_type, args |-> pk.args,
                      raised |-> r.raised]
          /\ pk' = [pk EXCEPT !.pc = "wire"] @@ [frame |-> r.c.sent[1]]
    /\ UNCHANGED <<sockvars, writevars, maxtimeout>>

\* the peer: json.loads, then the unpacking of _dispatch_method
PackDispatch ==
    /\ pk.pc = "wire"
    /\ pk' = [pk EXCEPT !.pc = "done"] @@ [got |-> Called(Unpack(loads(pk.frame)))]
    /\ UNCHANGED <<connvars, sockvars, writevars, maxtimeout>>

NextPack == PackProxy \/ PackDispatch

SpecPack == InitPack /\ [][NextPack]_vars

-----------------------------------------------------------------------------
(* The framer, dispatch_until_empty and serve, one step at a time: a step   *)
(* ends where the thread calls the socket, asks for the lock or enters a    *)
(* method of the handler.  A byte is NL (the newline), "o" (the line "o" is a request     *)
(* with an id, {"method": "ping", "id": 1}: it is dispatched and a reply is   *)
(* written), "n" (the line "n" is a notification, {"method": "ping"}: it is   *)
(* dispatched and nothing is written), "5" (the line "5" is a JSON number) or *)
(* "x"; no other non-empty line parses.                                       *)

NL == "\n"
Bytes == {NL, "o", "n", "5", "x"}

\* settimeout passing the timeout on as it is
settimeout_noclamp(operation, t) == t

\* Connection.settimeout: the timeout that reaches self._sck.settimeout
settimeout(operation, t) ==
    LET m == IF operation \in DOMAIN maxtimeout THEN maxtimeout[operation] ELSE JNull
    IN IF m # JNull /\ (t = JNull \/ t.v > m.v) THEN m ELSE t

\* str.find('\n'): the index of the first newline (from 1), 0 when there is none
Find(b) ==
    IF \E i \in DOMAIN b : b[i] = NL
    THEN CHOOSE i \in DOMAIN b : b[i] = NL /\ \A j \in 1..(i - 1) : b[j] # NL
    ELSE 0

\* _readn, lines 706-709: the line returned and what stays in self._buffer
LineOf(b) == SubSeq(b, 1, Find(b) - 1)

\* the rest of the buffer with its first byte dropped as well
RestOf_skip(b) == SubSeq(b, Find(b) + 2, Len(b))

RestOf(b) == SubSeq(b, Find(b) + 1, Len(b))

\* json.loads(data, self) in read_and_dispatch: the type of the item, or that
\* the line does not parse
Parse(data) ==
    IF data = <<"o">> \/ data = <<"n">> THEN "dict"
    ELSE IF data = <<"5">> THEN "int"
    ELSE "error"

\* read_and_dispatch, lines 457-474, on the line read: whether it returns True
DispatchOk(data) ==
    IF data = <<>> THEN FALSE
    ELSE IF Parse(data) = "error" THEN FALSE
    ELSE IF Parse(data) = "dict" THEN TRUE
    ELSE FALSE

\* whether dispatching the line calls a method of the handler (dispatch_item,
\* line 489, and _dispatch_method, lines 380-381)
Handles(data) == Parse(data) = "dict"

\* whether dispatching the line makes the connection write: the reply to a
\* request that carries an id (dispatch_item, lines 502-504)
Writes(data) == data = <<"o">>

\* the frames of the dispatching thread: a notification of its own and the
\* reply to a request
NotifyLine == <<"q">>
ReplyLine == <<"p">>

\* write_line with the outbound buffer started afresh for every line
append_line_fresh(wb, data) == data \o <<NL>>

\* write_line, line 577: self._wbuffer += list(str(data + '\n'))
append_line(wb, data) == wb \o data \o <<NL>>

\* where the reading thread is once read_and_dispatch has returned ok, with b
\* the inbound buffer: dispatch_until_empty breaks on False (lines 432-433),
\* counts the call and goes on while the buffer holds a newline (lines
\* 434-436); serve calls read_and_dispatch again whatever it returned (lines
\* 718-719)
AfterLine(op, count, ok, b) ==
    IF op = "due"
    THEN IF ~ok
         THEN [pc |-> "idle", op |-> "due", ret |-> [kind |-> "returned", count |-> count]]
         ELSE IF Find(b) = 0
         THEN [pc |-> "idle", op |-> "due",
               ret |-> [kind |-> "returned", count |-> count + 1]]
         ELSE [pc |-> "loop", op |-> "due", count |-> count + 1]
    ELSE [pc |-> "loop", op |-> "serve", count |-> 0]

\* _readn has a newline in its streambuffer sb: it cuts the first line off
\* (lines 706-709) and read releases the lock (line 661), the socket's
\* timeout being t.  read_and_dispatch parses the line (lines 458-461): an
\* item goes to dispatch_item, which calls the method of the handler with no
\* lock held (lines 489, 380-381); for any other line read_and_dispatch
\* returns False (lines 459, 469, 472)
LineRead(op, count, sb, t) ==
    /\ buffer' = RestOf(sb)
    /\ lines' = Append(lines, LineOf(sb))
    /\ lock' = ""
    /\ timeout' = t
    /\ rd' = IF Handles(LineOf(sb))
             THEN [pc |-> "dispatch", op |-> op, count |-> count, data |-> LineOf(sb)]
             ELSE AfterLine(op, count, DispatchOk(LineOf(sb)), RestOf(sb))

\* one call of read_and_dispatch(timeout=t0) whose settimeout returns: read
\* sets the timeout and takes the lock (lines 655-657), and _readn either
\* finds a line in self._buffer or has to call recv (lines 668-672), on the
\* socket as it is then (called)
ReadAndDispatch(op, t0, count) ==
    IF Find(buffer) = 0
    THEN /\ timeout' = settimeout("read", t0)
         /\ rd' = [pc |-> "recv", op |-> op, count |-> count, streambuffer |-> buffer,
                   called |-> sck]
         /\ lock' = "r"
         /\ UNCHANGED <<buffer, lines>>
    ELSE LineRead(op, count, buffer, settimeout("read", t0))

\* serve without its finally clause
serve_finally_skip(s) == s

\* serve, lines 720-721: finally: self.close()
serve_finally(s) == close(s)

\* read_and_dispatch, line 457: self.read(...) stands before the try block,
\* and neither read (lines 658-661), dispatch_until_empty nor serve (lines
\* 717-721) has an except clause: an exception of read leaves them
propagate(exc) == [kind |-> "raised", exc |-> exc]

\* an exception raised under read, in the call of read_and_dispatch that op
\* made after count others: read has released the lock if it held it (line
\* 661) and the exception leaves dispatch_until_empty, or reaches the finally
\* clause of serve (line 720); on a socket that is closed already the close()
\* of that clause changes nothing (lines 554-558) and serve has ended
ReadRaise(op, count, exc) ==
    /\ \E r \in {propagate(exc)} :
          rd' = IF r.kind # "raised" THEN AfterLine(op, count, FALSE, buffer)
                ELSE IF op = "serve" /\ sck = "open"
                THEN [pc |-> "finally", op |-> op, ret |-> r]
                ELSE [pc |-> "idle", op |-> op, ret |-> r]
    /\ lock' = ""
    /\ UNCHANGED <<buffer, timeout, net, peer, sck, sckclass, stream, lines, connvars, pk, maxtimeout, writevars>>

\* serve, lines 720-721: the finally clause closes the connection and the
\* exception leaves serve
ServeFinally ==
    /\ rd.pc = "finally"
    /\ sck' = serve_finally(sck)
    /\ rd' = [pc |-> "idle", op |-> rd.op, ret |-> rd.ret]
    /\ UNCHANGED <<buffer, timeout, lock, net, peer, sckclass, stream, lines, connvars, pk, maxtimeout, writevars>>

\* dispatch_until_empty is called: its first read_and_dispatch(timeout=0)
\* (lines 429-432), in which settimeout raises socket.error (lines 655, 632)
\* on a closed socket.socket
DueCall ==
    /\ rd.pc = "idle"
    /\ lock = ""
    /\ IF timeout_raises(sck, sckclass)
       THEN ReadRaise("due", 0, "socket.error in settimeout")
       ELSE /\ ReadAndDispatch("due", JInt(0), 0)
            /\ UNCHANGED <<net, peer, sck, sckclass, stream, connvars, pk, maxtimeout, writevars>>

\* dispatch_until_empty goes round its loop: the next
\* read_and_dispatch(timeout=0) (lines 431-432)
DueNext ==
    /\ rd.pc = "loop"
    /\ rd.op = "due"
    /\ lock = ""
    /\ IF timeout_raises(sck, sckclass)
       THEN ReadRaise("due", rd.count, "socket.error in settimeout")
       ELSE /\ ReadAndDispatch("due", JInt(0), rd.count)
            /\ UNCHANGED <<net, peer, sck, sckclass, stream, connvars, pk, maxtimeout, writevars>>

\* serve is called: its first read_and_dispatch(), with no timeout (lines
\* 717-719), in which settimeout raises socket.error (lines 655, 632) on a
\* closed socket.socket
ServeCall ==
    /\ rd.pc = "idle"
    /\ lock = ""
    /\ IF timeout_raises(sck, sckclass)
       THEN ReadRaise("serve", 0, "socket.error in settimeout")
       ELSE /\ ReadAndDispatch("serve", JNull, 0)
            /\ UNCHANGED <<net, peer, sck, sckclass, stream, connvars, pk, maxtimeout, writevars>>

\* serve goes round its loop: the next read_and_dispatch() (lines 718-719)
ServeNext ==
    /\ rd.pc = "loop"
    /\ rd.op = "serve"
    /\ lock = ""
    /\ IF timeout_raises(sck, sckclass)
       THEN ReadRaise("serve", 0, "socket.error in settimeout")
       ELSE /\ ReadAndDispatch("serve", JNull, 0)
            /\ UNCHANGED <<net, peer, sck, sckclass, stream, connvars, pk, maxtimeout, writevars>>

\* recv on the open socket returns the bytes that have arrived, at most
\* RecvSize of them (lines 675, 703-704)
RecvData ==
    /\ rd.pc = "recv"
    /\ sck = "open"
    /\ net # <<>>
    /\ \E n \in {IF Len(net) < RecvSize THEN Len(net) ELSE RecvSize} :
       \E sb \in {rd.streambuffer \o SubSeq(net, 1, n)} :
          /\ net' = SubSeq(net, n + 1, Len(net))
          /\ IF Find(sb) = 0
             THEN /\ rd' = [rd EXCEPT !.streambuffer = sb]
                  /\ UNCHANGED <<buffer, lines, lock, timeout>>
             ELSE LineRead(rd.op, rd.count, sb, timeout)
    /\ UNCHANGED <<peer, sck, sckclass, stream, connvars, pk, maxtimeout, writevars>>

\* recv on a non-blocking socket with nothing to read: errno 11, and _readn
\* sets the timeout to RetryTimeout and calls recv again (lines 681-684)
RecvWouldBlock ==
    /\ rd.pc = "recv"
    /\ sck = "open"
    /\ net = <<>> /\ peer = "open"
    /\ timeout = JInt(0)
    /\ timeout' = JInt(RetryTimeout)
    /\ UNCHANGED <<buffer, lock, net, peer, sck, sckclass, stream, lines, rd, connvars, pk, maxtimeout, writevars>>

\* recv times out: _readn returns '' (line 691) without storing what it has
\* read, read releases the lock and read_and_dispatch returns False (lines
\* 458-459)
RecvTimeout ==
    /\ rd.pc = "recv"
    /\ sck = "open"
    /\ net = <<>> /\ peer = "open"
    /\ timeout # JInt(0) /\ timeout # JNull
    /\ rd' = AfterLine(rd.op, rd.count, FALSE, buffer)
    /\ lock' = ""
    /\ UNCHANGED <<buffer, timeout, net, peer, sck, sckclass, stream, lines, connvars, pk, maxtimeout, writevars>>

\* recv raises socket.error, connection reset: the peer has closed without
\* reading what was sent to it.  _readn returns '' (lines 676-697, the errno
\* is not 11), read releases the lock and read_and_dispatch returns False;
\* the socket has reported the error and its next recv returns no byte
RecvReset ==
    /\ rd.pc = "recv"
    /\ sck = "open"
    /\ net = <<>> /\ peer = "reset"
    /\ peer' = "closed"
    /\ rd' = AfterLine(rd.op, rd.count, FALSE, buffer)
    /\ lock' = ""
    /\ UNCHANGED <<buffer, timeout, net, sck, sckclass, stream, lines, connvars, pk, maxtimeout, writevars>>

\* recv returns no byte: the peer has closed; _readn raises EofError (line
\* 701), read releases the lock and the error leaves read_and_dispatch
RecvEof ==
    /\ rd.pc = "recv"
    /\ sck = "open"
    /\ net = <<>> /\ peer = "closed"
    /\ ReadRaise(rd.op, rd.count, "EofError")

\* recv is called on the closed _socket.socket and raises socket.error (bad
\* file descriptor), the except clause gets the timeout printed and _readn
\* returns '' (lines 676-697): read releases the lock, read_and_dispatch
\* returns False (lines 458-459); dispatch_until_empty returns and serve goes
\* round its loop
RecvClosedEmpty ==
    /\ rd.pc = "recv"
    /\ sck = "closed"
    /\ sckclass = "_socket.socket"
    /\ rd' = AfterLine(rd.op, rd.count, FALSE, buffer)
    /\ lock' = ""
    /\ UNCHANGED <<buffer, timeout, net, peer, sck, sckclass, stream, lines, connvars, pk, maxtimeout, writevars>>

\* the method of the handler has returned.  For an item without id
\* dispatch_item returns True (line 508).  For a request with an id it writes
\* the reply (lines 502-504): write sets the write timeout (line 640) and
\* asks for the lock (line 641); when settimeout raises socket.error,
\* read_and_dispatch catches it to return False (lines 470-472)
DispatchItem ==
    /\ rd.pc = "dispatch"
    /\ IF ~Writes(rd.data)
       THEN /\ rd' = AfterLine(rd.op, rd.count, TRUE, buffer)
            /\ timeout' = timeout
       ELSE IF timeout_raises(sck, sckclass)
       THEN /\ rd' = AfterLine(rd.op, rd.count, FALSE, buffer)
            /\ timeout' = timeout
       ELSE /\ rd' = [pc |-> "acquire", op |-> rd.op, count |-> rd.count]
            /\ timeout' = settimeout("write", JNull)
    /\ UNCHANGED <<buffer, lock, net, peer, sck, sckclass, stream, lines, connvars, pk, maxtimeout, writevars>>

\* scklock.acquire() returns (line 641); write_line appends the reply and a
\* newline to the outbound buffer (line 577)
ReplyAcquire ==
    /\ rd.pc = "acquire"
    /\ lock = ""
    /\ lock' = "r"
    /\ wbuffer' = append_line(wbuffer, ReplyLine)
    /\ order' = Append(order, ReplyLine)
    /\ rd' = [rd EXCEPT !.pc = "send"]
    /\ UNCHANGED <<timeout, wire, th, buffer, net, peer, sck, sckclass, stream, lines, connvars, pk, maxtimeout>>

\* write, lines 643-646, without its finally clause: the lock stays held when
\* write_line raises
write_leave_noraise(l, outcome) == IF outcome = "raised" THEN l ELSE ""

\* write, lines 643-646: the finally clause releases the lock however
\* write_line ends
write_leave(l, outcome) == ""

\* write_line returns the bytes left ("returned") or '' ("failed"), or raises
\* ("raised"), and write releases the lock (line 646); dispatch_item returns
\* True (line 508), or the exception leaves it and read_and_dispatch returns
\* False (lines 470-472)
ReplyLeave(outcome) ==
    /\ lock' = write_leave(lock, outcome)
    /\ rd' = AfterLine(rd.op, rd.count, outcome # "raised", buffer)

\* send accepts the first k bytes of the outbound buffer (lines 581, 596);
\* the loop ends when the buffer is empty
ReplySendSome ==
    /\ rd.pc = "send"
    /\ sck = "open"
    /\ \E k \in 1..Len(wbuffer) :
          /\ wire' = wire \o SubSeq(wbuffer, 1, k)
          /\ wbuffer' = SubSeq(wbuffer, k + 1, Len(wbuffer))
          /\ IF k = Len(wbuffer)
             THEN ReplyLeave("returned")
             ELSE UNCHANGED <<lock, rd>>
    /\ UNCHANGED <<order, th, timeout, buffer, net, peer, sck, sckclass, stream, lines, connvars, pk, maxtimeout>>

\* send accepts nothing and the loop breaks (lines 594-595), or send raises
\* IOError or socket.error (the peer has closed, the socket was shut down or
\* closed, the write timed out), the except clause gets the timeout printed
\* and write_line returns '' (lines 582-591): what was not sent stays in the
\* outbound buffer, and dispatch_item does not look at what write returns
ReplySendFail ==
    /\ rd.pc = "send"
    /\ ~timeout_raises(sck, sckclass)
    /\ ReplyLeave("failed")
    /\ UNCHANGED <<wbuffer, wire, order, th, timeout, buffer, net, peer, sck, sckclass, stream, lines, connvars, pk, maxtimeout>>

\* an exception leaves write_line: send raises anything else (lines
\* 592-593), or it raises socket.error on the closed socket.socket and the
\* gettimeout() of the except clause raises in its turn (lines 582-591)
ReplySendRaise ==
    /\ rd.pc = "send"
    /\ ReplyLeave("raised")
    /\ UNCHANGED <<wbuffer, wire, order, th, timeout, buffer, net, peer, sck, sckclass, stream, lines, connvars, pk, maxtimeout>>

\* the peer sends one more byte, shuts down, or closes with bytes of the
\* connection unread (its end of the stream is reset)
PeerSend(b) ==
    /\ peer = "open"
    /\ Len(stream) < MaxBytes
    /\ stream' = Append(stream, b)
    /\ net' = Append(net, b)
    /\ UNCHANGED <<buffer, timeout, lock, peer, sck, sckclass, lines, rd, connvars, pk, maxtimeout, writevars>>

PeerClose ==
    /\ peer = "open"
    /\ peer' = "closed"
    /\ UNCHANGED <<sck, sckclass, buffer, timeout, lock, net, stream, lines, rd, connvars, pk, maxtimeout, writevars>>

PeerReset ==
    /\ peer = "open"
    /\ wire # <<>>
    /\ peer' = "reset"
    /\ UNCHANGED <<sck, sckclass, buffer, timeout, lock, net, stream, lines, rd, connvars, pk, maxtimeout, writevars>>

InitFrame == InitConn /\ PackOff /\ InitSock

NextFrame ==
    \/ DueCall
    \/ DueNext
    \/ ServeCall
    \/ ServeNext
    \/ RecvData
    \/ RecvWouldBlock
    \/ RecvTimeout
    \/ RecvReset
    \/ RecvEof
    \/ RecvClosedEmpty
    \/ DispatchItem
    \/ ReplyAcquire
    \/ ReplySendSome
    \/ ReplySendFail
    \/ ReplySendRaise
    \/ ServeFinally
    \/ \E b \in Bytes : PeerSend(b)
    \/ PeerClose
    \/ PeerReset

SpecFrame == InitFrame /\ [][NextFrame]_vars

\* the same with a socket that does not fail while it is open: no recv times
\* out or is reset, and every send takes some bytes
NextChunk ==
    \/ DueCall
    \/ DueNext
    \/ ServeCall
    \/ ServeNext
    \/ RecvData
    \/ RecvWouldBlock
    \/ RecvEof
    \/ RecvClosedEmpty
    \/ DispatchItem
    \/ ReplyAcquire
    \/ ReplySendSome
    \/ ServeFinally
    \/ \E b \in Bytes : PeerSend(b)
    \/ PeerClose

SpecChunk == InitFrame /\ [][NextChunk]_vars

-----------------------------------------------------------------------------
(* serve on one thread while another thread calls close.  On a closed       *)
(* socket recv and send raise socket.error (bad file descriptor), and on a  *)
(* socket.socket settimeout and gettimeout do as well; a recv that was      *)
(* already waiting is woken by the shutdown and returns no byte.            *)

\* the recv that was waiting when the socket was shut down returns no byte:
\* _readn raises EofError (lines 700-701)
RecvShutdown ==
    /\ rd.pc = "recv"
    /\ sck = "closed"
    /\ rd.called = "open"
    /\ ReadRaise(rd.op, rd.count, "EofError")

\* recv is called on the closed socket.socket and raises socket.error; the
\* except clause prints self._sck.gettimeout() (lines 676-678, 692-694),
\* which raises socket.error in its turn
RecvClosedRaise ==
    /\ rd.pc = "recv"
    /\ timeout_raises(sck, sckclass)
    /\ ReadRaise(rd.op, rd.count, "socket.error in gettimeout")

InitServe == InitConn /\ PackOff /\ InitSock

NextServe ==
    \/ ServeCall
    \/ RecvData
    \/ RecvTimeout
    \/ RecvReset
    \/ RecvEof
    \/ RecvShutdown
    \/ RecvClosedRaise
    \/ RecvClosedEmpty
    \/ ServeNext
    \/ DispatchItem
    \/ ReplyAcquire
    \/ ReplySendSome
    \/ ReplySendFail
    \/ ReplySendRaise
    \/ ServeFinally
    \/ Close
    \/ \E b \in Bytes : PeerSend(b)
    \/ PeerClose
    \/ PeerReset

\* the serving thread keeps running: a method of the handler returns, the
\* lock is given to the thread that asks for it, a send returns or raises,
\* and a socket call on the closed socket returns or raises
SpecServe ==
    /\ InitServe
    /\ [][NextServe]_vars
    /\ WF_vars(RecvShutdown \/ RecvClosedRaise \/ RecvClosedEmpty)
    /\ WF_vars(ServeNext)
    /\ WF_vars(DispatchItem)
    /\ WF_vars(ReplyAcquire)
    /\ WF_vars(ReplySendSome \/ ReplySendFail \/ ReplySendRaise)
    /\ WF_vars(ServeFinally)

-----------------------------------------------------------------------------
(* write and read under the socket lock, one socket call at a time, with     *)
(* several threads on one connection.                                         *)

\* the line a thread writes: json.dumps output, which holds no newline
LineOfThread(t) == <<t>>

\* write is called: the timeout is set before the lock is asked for
WriteCall(t) ==
    /\ th[t].pc = "idle"
    /\ th[t].n < MaxWrites
    /\ timeout' = settimeout("write", JNull)
    /\ th' = [th EXCEPT ![t].pc = "acquire", ![t].n = @ + 1, ![t].ret = "none",
                         ![t].data = LineOfThread(t)]
    /\ UNCHANGED <<lock, wbuffer, wire, order, buffer, net, peer, sck, sckclass, stream, lines, rd, connvars, pk, maxtimeout>>

\* scklock.acquire() returns; write_line appends the line and a newline to
\* the outbound buffer (line 577)
WriteAcquire(t) ==
    /\ th[t].pc = "acquire"
    /\ lock = ""
    /\ lock' = t
    /\ wbuffer' = append_line(wbuffer, th[t].data)
    /\ order' = Append(order, th[t].data)
    /\ th' = [th EXCEPT ![t].pc = "send"]
    /\ UNCHANGED <<timeout, wire, buffer, net, peer, sck, sckclass, stream, lines, rd, connvars, pk, maxtimeout>>

\* write_line returns the bytes left ("returned") or '' ("failed"), or raises
\* ("raised"), and write releases the lock
WriteLeave(t, outcome) ==
    /\ lock' = write_leave(lock, outcome)
    /\ th' = [th EXCEPT ![t].pc = "idle", ![t].ret = outcome]

\* send accepts the first k bytes of the outbound buffer (lines 581, 596);
\* the loop ends when the buffer is empty
SendSome(t) ==
    /\ th[t].pc = "send"
    /\ \E k \in 1..Len(wbuffer) :
          /\ wire' = wire \o SubSeq(wbuffer, 1, k)
          /\ wbuffer' = SubSeq(wbuffer, k + 1, Len(wbuffer))
          /\ IF k = Len(wbuffer)
             THEN WriteLeave(t, "returned")
             ELSE UNCHANGED <<lock, th>>
    /\ UNCHANGED <<order, timeout, buffer, net, peer, sck, sckclass, stream, lines, rd, connvars, pk, maxtimeout>>

\* send accepts nothing: the loop breaks and the rest stays in the outbound
\* buffer (lines 594-595)
SendZero(t) ==
    /\ th[t].pc = "send"
    /\ WriteLeave(t, "returned")
    /\ UNCHANGED <<wbuffer, wire, order, timeout, buffer, net, peer, sck, sckclass, stream, lines, rd, connvars, pk, maxtimeout>>

\* send raises IOError or socket.error: write_line returns '' (lines 582-591)
SendError(t) ==
    /\ th[t].pc = "send"
    /\ WriteLeave(t, "failed")
    /\ UNCHANGED <<wbuffer, wire, order, timeout, buffer, net, peer, sck, sckclass, stream, lines, rd, connvars, pk, maxtimeout>>

\* send raises anything else: write_line raises it again (lines 592-593)
SendRaise(t) ==
    /\ th[t].pc = "send"
    /\ WriteLeave(t, "raised")
    /\ UNCHANGED <<wbuffer, wire, order, timeout, buffer, net, peer, sck, sckclass, stream, lines, rd, connvars, pk, maxtimeout>>

\* the reading thread calls read (lines 655-657) with the timeout of serve
\* (None) or of dispatch_until_empty (0); t0 keeps the timeout it asked for
ReadCall(t0) ==
    /\ th["r"].pc = "idle"
    /\ timeout' = settimeout("read", t0)
    /\ th' = [th EXCEPT !["r"].pc = "racquire", !["r"].t0 = t0]
    /\ UNCHANGED <<lock, wbuffer, wire, order, buffer, net, peer, sck, sckclass, stream, lines, rd, connvars, pk, maxtimeout>>

ReadAcquire ==
    /\ th["r"].pc = "racquire"
    /\ lock = ""
    /\ lock' = "r"
    /\ th' = [th EXCEPT !["r"].pc = "recv"]
    /\ UNCHANGED <<timeout, wbuffer, wire, order, buffer, net, peer, sck, sckclass, stream, lines, rd, connvars, pk, maxtimeout>>

\* recv on a non-blocking socket with nothing to read: errno 11, and _readn
\* sets the timeout to RetryTimeout and calls recv again, the lock still held
\* (lines 681-684)
ReadWouldBlock ==
    /\ th["r"].pc = "recv"
    /\ timeout = JInt(0)
    /\ timeout' = JInt(RetryTimeout)
    /\ UNCHANGED <<lock, th, wbuffer, wire, order, buffer, net, peer, sck, sckclass, stream, lines, rd, connvars, pk, maxtimeout>>

\* read, lines 658-661, without its finally clause: the lock stays held
read_leave_hold(l) == l

\* read, lines 658-661: the finally clause releases the lock
read_leave(l) == ""

\* read_line returns '' or raises, and read releases the lock (lines 658-661)
ReadLeave ==
    /\ th["r"].pc = "recv"
    /\ lock' = read_leave(lock)
    /\ th' = [th EXCEPT !["r"].pc = "idle"]
    /\ UNCHANGED <<timeout, wbuffer, wire, order, buffer, net, peer, sck, sckclass, stream, lines, rd, connvars, pk, maxtimeout>>

InitLock == InitConn /\ PackOff /\ InitSock

NextLock ==
    \/ \E t \in Threads : WriteCall(t)
    \/ \E t \in Threads : WriteAcquire(t)
    \/ \E t \in Threads : SendSome(t)
    \/ \E t \in Threads : SendZero(t)
    \/ \E t \in Threads : SendError(t)
    \/ \E t \in Threads : SendRaise(t)
    \/ \E t0 \in {JNull, JInt(0)} : ReadCall(t0)
    \/ ReadAcquire
    \/ ReadWouldBlock
    \/ ReadLeave

SpecLock == InitLock /\ [][NextLock]_vars

-----------------------------------------------------------------------------
(* A handler that calls back: the reading thread "r" serves, reads an        *)
(* invocation of a method that sends a notification to the peer through the *)
(* connection's proxy (gettotal in examples/example1-server.py), and        *)
(* replies; the other threads write their own frames meanwhile.             *)

\* serve calls read_and_dispatch() (line 719), which calls read (line 457),
\* once the item before has been dispatched
ServeRead ==
    /\ th["r"].job # "notify"
    /\ ReadCall(JNull)

\* read_line returns the invocation and read releases the lock (lines
\* 659-662); dispatch_item and _dispatch_method look the method up and call
\* it (lines 489, 380-381)
HandlerInvoke ==
    /\ th["r"].pc = "recv"
    /\ th["r"].n < MaxWrites
    /\ lock' = read_leave(lock)
    /\ th' = [th EXCEPT !["r"].pc = "handler", !["r"].n = @ + 1, !["r"].job = "invoked"]
    /\ UNCHANGED <<timeout, wbuffer, wire, order, buffer, net, peer, sck, sckclass, stream, lines, rd, connvars, pk, maxtimeout>>

\* the method calls self._conn.notify.notify(...): proxy with sync_type 2
\* calls write (lines 537-539), which sets the timeout and asks for the lock
HandlerNotify ==
    /\ th["r"].pc = "handler"
    /\ timeout' = settimeout("write", JNull)
    /\ th' = [th EXCEPT !["r"].pc = "acquire", !["r"].ret = "none",
                         !["r"].data = NotifyLine, !["r"].job = "notify"]
    /\ UNCHANGED <<lock, wbuffer, wire, order, buffer, net, peer, sck, sckclass, stream, lines, rd, connvars, pk, maxtimeout>>

\* the method has returned, or the exception of its write was caught (lines
\* 385-413): _dispatch_method returns the reply and dispatch_item writes it
\* (lines 502-504)
HandlerReply ==
    /\ th["r"].pc = "idle"
    /\ th["r"].job = "notify"
    /\ timeout' = settimeout("write", JNull)
    /\ th' = [th EXCEPT !["r"].pc = "acquire", !["r"].ret = "none",
                         !["r"].data = ReplyLine, !["r"].job = "reply"]
    /\ UNCHANGED <<lock, wbuffer, wire, order, buffer, net, peer, sck, sckclass, stream, lines, rd, connvars, pk, maxtimeout>>

InitHandler == InitConn /\ PackOff /\ InitSock

NextHandler ==
    \/ ServeRead
    \/ ReadAcquire
    \/ ReadLeave
    \/ HandlerInvoke
    \/ HandlerNotify
    \/ HandlerReply
    \/ \E t \in Threads \ {"r"} : WriteCall(t)
    \/ \E t \in Threads : WriteAcquire(t)
    \/ \E t \in Threads : SendSome(t)
    \/ \E t \in Threads : SendZero(t)
    \/ \E t \in Threads : SendError(t)
    \/ \E t \in Threads : SendRaise(t)

SpecHandler == InitHandler /\ [][NextHandler]_vars

-----------------------------------------------------------------------------
(* The timeouts: setmaxtimeout on the class, settimeout on a connection *)

Seconds == {JNull} \cup {JInt(n) : n \in 0..MaxSeconds}

\* Connection.setmaxtimeout(operation, value)
SetMaxTimeout(operation, value) ==
    /\ operation \in {"read", "write"}
    /\ maxtimeout' = [maxtimeout EXCEPT ![operation] = value]
    /\ last' = [op |-> "setmaxtimeout", operation |-> operation, t |-> value]
    /\ UNCHANGED <<id, requests, response, issued, objects, remoteobjects, handler, sent>>
    /\ UNCHANGED <<pk, sockvars, writevars>>

\* Connection.settimeout(operation, t)
SetTimeout(operation, t) ==
    /\ timeout' = settimeout(operation, t)
    /\ last' = [op |-> "settimeout", operation |-> operation, t |-> t]
    /\ UNCHANGED <<id, requests, response, issued, objects, remoteobjects, handler, sent>>
    /\ UNCHANGED <<pk, buffer, lock, net, peer, sck, sckclass, stream, lines, rd, writevars, maxtimeout>>

InitTimeout == InitConn /\ PackOff /\ InitSock

NextTimeout ==
    \/ \E operation \in {"read", "write"}, value \in Seconds :
          SetMaxTimeout(operation, value)
    \/ \E operation \in {"read", "write"}, t \in Seconds : SetTimeout(operation, t)

SpecTimeout == InitTimeout /\ [][NextTimeout]_vars

-----------------------------------------------------------------------------
(* get_id called by several threads, one access to self._id at a time.      *)
(* Neither get_id nor its callers (proxy, line 526, and _dump_remoteobject, *)
(* line 342) take a lock, and the interpreter may switch threads between    *)
(* the read and the write of "self._id += 1" and before "return self._id".  *)

InitId == InitConn /\ PackOff /\ InitSock

\* get_id, line 231, first half: self._id is read
GetIdLoad(t) ==
    /\ th[t].pc = "idle"
    /\ th[t].n < MaxGets
    /\ th' = [th EXCEPT ![t].pc = "loaded", ![t].n = @ + 1, ![t].tmp = id]
    /\ UNCHANGED <<connvars, pk, sockvars, wbuffer, wire, order, maxtimeout>>

\* get_id, line 231, second half: self._id = (the value read) + 1
GetIdStore(t) ==
    /\ th[t].pc = "loaded"
    /\ id' = th[t].tmp + 1
    /\ th' = [th EXCEPT ![t].pc = "stored"]
    /\ UNCHANGED <<requests, response, issued, objects, remoteobjects, handler, sent, last>>
    /\ UNCHANGED <<pk, sockvars, wbuffer, wire, order, maxtimeout>>

\* get_id, line 232: return self._id
GetIdReturn(t) ==
    /\ th[t].pc = "stored"
    /\ th' = [th EXCEPT ![t].pc = "idle", ![t].got = Append(@, id)]
    /\ UNCHANGED <<connvars, pk, sockvars, wbuffer, wire, order, maxtimeout>>

NextId ==
    \/ \E t \in Threads : GetIdLoad(t)
    \/ \E t \in Threads : GetIdStore(t)
    \/ \E t \in Threads : GetIdReturn(t)

SpecId == InitId /\ [][NextId]_vars

-----------------------------------------------------------------------------
(* Request.value as the caller sees it: what a sync call makes of a response *)

value(resp) ==
    IF resp.error # JNull THEN ServerError(resp.error.v) ELSE Return(resp.result)

-----------------------------------------------------------------------------
(* What a step was about, read from last *)

RecvItem(l) == l.op = "recv" /\ l.frame.t = "dict"

IsInvocation(l) == RecvItem(l) /\ "method" \in DOMAIN l.frame.v

IsResponse(l) ==
    RecvItem(l) /\ "method" \notin DOMAIN l.frame.v /\ "result" \in DOMAIN l.frame.v

ItemId(item) == IF "id" \in DOMAIN item THEN item.id ELSE JNull

\* the invocation names the root handler or an instance of the registry objs,
\* and is not the removal of that instance
Resolves(item, objs) ==
    \/ Len(item.method) = 1
    \/ item.method[1] \in DOMAIN objs /\ item.method[2] # "__delete__"

Target(item, objs) ==
    IF Len(item.method) = 1 THEN "handler" ELSE objs[item.method[1]]

Outcome(item, objs) ==
    Invoke(Target(item, objs), item.method[Len(item.method)],
           Unpack(item).args, Unpack(item).kwargs)

\* the method the invocation names is missing (also when the connection has
\* no root handler to look it up in), is called with arguments it does not
\* take, or raises
Fails(item, objs) ==
    \/ Len(item.method) = 1 /\ handler = "unset"
    \/ Outcome(item, objs).kind # "return"

\* the step serializes instance o: as the argument of a call, or as the result
\* of getx / gety called with an id
Serializes(l, o) ==
    \/ l.op = "call" /\ l.args = <<Instance(o)>>
    \/ /\ IsInvocation(l)
       /\ ItemId(l.frame.v) # JNull
       /\ l.frame.v.method = <<"get" \o o>>

RequestIds(l) == IF l.op = "call" /\ l.sync_type \in {0, 1} THEN 1 ELSE 0

EmittedName(frame) ==
    IF "result" \in DOMAIN frame THEN frame.result.v ELSE frame.params.v[1].v

-----------------------------------------------------------------------------
(* Claims *)

\* C1: dispatching a response item with id i completes exactly the pending
\* request that was issued id i, with that item; it removes exactly that entry
\* from the request table and leaves every other entry and every other
\* request's response untouched, in whatever order the responses arrive.
C1_Step ==
    (IsResponse(last') /\ ItemId(last'.frame.v).t = "int"
        /\ last'.frame.v.id.v \in DOMAIN requests)
    => LET item == last'.frame.v
           i == item.id.v
           h == requests[i]
       IN /\ issued[h] = i
          /\ response'[h] = item
          /\ value(response'[h]) = value(item)
          /\ \A g \in DOMAIN response \ {h} : response'[g] = response[g]
          /\ DOMAIN requests' = DOMAIN requests \ {i}
          /\ \A k \in DOMAIN requests' : requests'[k] = requests[k]

C1_ResponseCompletesItsRequest == [][C1_Step]_vars

\* two requests are outstanding and the response to the later one has arrived
\* first: it is completed, the earlier one is still pending
C1_Witness ==
    /\ IsResponse(last)
    /\ \E h \in DOMAIN response :
          /\ response[h] = last.frame.v
          /\ \E k \in DOMAIN requests : k < issued[h] /\ response[requests[k]] = JNull

\* C2: the request ids issued on a connection are at least 1 and strictly
\* increasing in the order of the calls, so none is ever reused, also when
\* notifications and serializations that draw on the same counter come between.
C2_IdsStrictlyIncreasing ==
    /\ \A h \in DOMAIN issued : issued[h] >= 1
    /\ \A g, h \in DOMAIN issued : g < h => issued[g] < issued[h]

\* two calls with a serialization between them: the second id skips one
C2_Witness ==
    /\ Len(issued) >= 2
    /\ issued[2] > issued[1] + 1
    /\ \E o \in Objs : remoteobjects[o] # NoName

\* C3 (as claimed): an invocation with a non-null id whose method is
\* missing, is called with wrong arguments, raises ServerError or raises any
\* other exception is answered by exactly one reply with result null, an
\* error string and the same id, which the caller's sync call turns into
\* ServerError; no exception leaves the dispatcher, the connection stays open
\* and the request table and the registry are as before.
C3_Step ==
    (IsInvocation(last') /\ ItemId(last'.frame.v) # JNull
        /\ Resolves(last'.frame.v, objects)
        /\ Fails(last'.frame.v, objects))
    => /\ Len(sent') = 1
       /\ sent'[1].result = JNull
       /\ sent'[1].error.t = "str"
       /\ sent'[1].id = last'.frame.v.id
       /\ value(sent'[1]).kind = "ServerError"
       /\ last'.ok /\ last'.raised = ""
       /\ sck' = sck
       /\ requests' = requests /\ objects' = objects /\ id' = id

C3_ErrorReply == [][C3_Step]_vars

\* C4: an invocation whose id is absent or null is never answered, whatever
\* its method does; a notify call takes no request id from the counter, adds
\* no entry to the request table and sends an envelope without id.
C4_Step ==
    /\ (IsInvocation(last') /\ ItemId(last'.frame.v) = JNull) => sent' = <<>>
    /\ (last'.op = "call" /\ last'.sync_type = 2)
       => /\ requests' = requests
          /\ issued' = issued
          /\ id' = id + Cardinality(NewInstances(Conn, last'.args))
          /\ Len(sent') = 1
          /\ "id" \notin DOMAIN sent'[1]

C4_NotificationSilence == [][C4_Step]_vars

\* a notification of a method that raises ServerError: nothing was written
C4_Witness ==
    /\ IsInvocation(last)
    /\ ItemId(last.frame.v) = JNull
    /\ last.frame.v.method = <<"fail">>
    /\ sent = <<>>
    /\ last.ok

\* C5: whatever positional and keyword arguments a proxy call is given, the
\* envelope carries the keyword arguments under params when there are no
\* positional ones, and otherwise the positional ones under params and the
\* keyword ones under kwparams, with no params key (and never an empty params
\* object) when there are neither; unpacked by the receiver, it calls the
\* method with exactly the positional and keyword arguments given.
C5_PackingRoundTrip ==
    /\ pk.pc \in {"wire", "done"}
       => /\ (pk.args = <<>> /\ DOMAIN pk.kwargs # {})
             => /\ pk.frame.params = Dict("str", pk.kwargs)
                /\ "kwparams" \notin DOMAIN pk.frame
          /\ pk.args # <<>>
             => /\ pk.frame.params = List(pk.args)
                /\ DOMAIN pk.kwargs # {} => pk.frame.kwparams = Dict("str", pk.kwargs)
                /\ DOMAIN pk.kwargs = {} => "kwparams" \notin DOMAIN pk.frame
          /\ (pk.args = <<>> /\ DOMAIN pk.kwargs = {})
             => DOMAIN pk.frame \cap {"params", "kwparams"} = {}
          /\ "params" \in DOMAIN pk.frame /\ pk.frame.params.t = "dict"
             => DOMAIN pk.frame.params.v # {}
    /\ pk.pc = "done"
       => /\ pk.got.args = pk.args
          /\ pk.got.kwargs.v = pk.kwargs
          /\ pk.got.kwargs.keys = "str"

\* a call with two positional and two keyword arguments reached the method
C5_Witness ==
    /\ pk.pc = "done"
    /\ Len(pk.args) = 2
    /\ DOMAIN pk.kwargs = KwKeys
    /\ pk.got.args = pk.args
    /\ "kwparams" \in DOMAIN pk.frame

\* C6 (as claimed): every serialization of an instance emits the name it was
\* given the first time, only the first one consumes an id and enters the
\* registry, and the name emitted is in the registry, for that instance.
C6_Step ==
    \A o \in Objs :
        Serializes(last', o)
        => /\ Len(sent') = 1
           /\ (remoteobjects[o] # NoName
               => /\ EmittedName(sent'[1]) = remoteobjects[o]
                  /\ objects' = objects
                  /\ id' = id + RequestIds(last'))
           /\ EmittedName(sent'[1]) \in DOMAIN objects'
           /\ objects'[EmittedName(sent'[1])] = o

C6_SameNameResolves == [][C6_Step]_vars

\* C7: two exposed instances never share a name, and every entry of the
\* registry is filed under the name of the instance it holds (no entry was
\* overwritten by another instance's), after any serializations and removals.
C7_UniqueNames ==
    /\ \A o1, o2 \in Objs :
          (o1 # o2 /\ remoteobjects[o1] # NoName) => remoteobjects[o1] # remoteobjects[o2]
    /\ \A n \in DOMAIN objects : remoteobjects[objects[n]] = n

\* both instances are exposed, one was removed and the other is registered
C7_Witness ==
    /\ \A o \in Objs : remoteobjects[o] # NoName
    /\ Cardinality(DOMAIN objects) = 1

\* C8: whenever dispatch_until_empty returns, the inbound buffer holds no
\* complete (newline-terminated) frame
C8_NoCompleteFrameLeft ==
    (rd.pc = "idle" /\ rd.op = "due" /\ rd.ret.kind = "returned")
        => Find(buffer) = 0

\* C9: inside dispatch_until_empty the thread never waits in recv: whenever it
\* is about to call recv the socket is non-blocking (timeout 0)
C9_NeverBlocks ==
    (rd.pc = "recv" /\ rd.op = "due") => timeout = JInt(0)

\* the threads inside write_line
InWriteLine == {t \in Threads : th[t].pc = "send"}

\* C10: at most one thread is inside write_line at any instant, it holds the
\* lock, and the lock is held by no thread that has left write or read
C10_WriteSerialized ==
    /\ Cardinality(InWriteLine) <= 1
    /\ \A t \in Threads : th[t].pc \in {"send", "recv"} => lock = t
    /\ lock # "" => th[lock].pc \in {"send", "recv"}

\* one thread is sending with bytes still to go, another waits for the lock,
\* and a third has left write through an exception
C10_Witness ==
    \E t, u, v \in Threads :
        /\ th[t].pc = "send" /\ lock = t /\ Len(wbuffer) = 1
        /\ th[u].pc = "acquire"
        /\ th[v].pc = "idle" /\ th[v].ret = "raised"

\* the lines of a sequence one after the other, each followed by a newline
RECURSIVE Framed(_)
Framed(ls) == IF ls = <<>> THEN <<>> ELSE Head(ls) \o <<NL>> \o Framed(Tail(ls))

\* C11: at every instant the bytes sent are a prefix of the lines written, each
\* with its newline, in the order their writes got the lock; what has not been
\* sent yet is what the outbound buffer holds
C11_WireOrder ==
    /\ Len(wire) <= Len(Framed(order))
    /\ wire = SubSeq(Framed(order), 1, Len(wire))
    /\ wbuffer = SubSeq(Framed(order), Len(wire) + 1, Len(Framed(order)))

\* a send error left a whole line in the outbound buffer, and the next writer
\* has sent it and the first byte of its own line
C11_Witness ==
    \E t, u \in Threads :
        /\ t # u
        /\ order = <<LineOfThread(t), LineOfThread(u)>>
        /\ th[t].pc = "idle" /\ th[t].ret = "failed"
        /\ th[u].pc = "send"
        /\ wire = LineOfThread(t) \o <<NL>> \o LineOfThread(u)
        /\ wbuffer = <<NL>>

\* C12: once the connection is closed no request is outstanding: the request
\* table is empty and every request made has been completed
C12_CloseFailsPending ==
    sck = "closed"
    => /\ DOMAIN requests = {}
       /\ \A h \in DOMAIN response : response[h] # JNull

\* serve has stopped
ServeEnded == rd.op = "serve" /\ rd.pc = "idle"

\* serve is leaving its loop: the exception has reached its finally clause
ServeEnding == rd.op = "serve" /\ rd.pc = "finally"

\* the error that ends serve is EofError
EndsOnEof == rd.ret = [kind |-> "raised", exc |-> "EofError"]

\* C13: a serve running on the open socket leaves its loop only by failing
\* with EofError, raised by a recv that returned no byte when the peer had
\* shut down and no complete frame was buffered; the socket lock is free
\* from the moment the error leaves read, and close() has been called when
\* serve has stopped, with that error
C13_ServeEndsOnEof ==
    /\ ServeEnding => EndsOnEof
    /\ ((ServeEnding \/ ServeEnded) /\ EndsOnEof)
       => /\ lock = ""
          /\ peer = "closed" /\ net = <<>>
          /\ Find(buffer) = 0
    /\ ServeEnded => (lock = "" /\ sck = "closed")

\* serve read two lines, then the peer shut down in the middle of a third
C13_Witness ==
    /\ ServeEnded
    /\ EndsOnEof
    /\ Len(lines) = 2
    /\ Len(stream) = MaxBytes
    /\ stream[Len(stream)] # NL
    /\ sck = "closed"

\* the step dispatched a batch
IsBatch(l) == l.op = "recv" /\ l.frame.t = "list"

\* the items of a batch that ask for a reply
WithId(items) == SelectSeq(items, LAMBDA it : ItemId(it) # JNull)

\* C14 (as claimed): whatever happens to one item of a batch, the connection
\* stays open and every other item is dispatched: each call of the batch that
\* names the root handler or a registered instance is answered
C14_Step ==
    IsBatch(last')
    => /\ sck' = sck
       /\ \A i \in DOMAIN last'.frame.v :
             (ItemId(last'.frame.v[i]) # JNull /\ Resolves(last'.frame.v[i], objects))
             => \E j \in DOMAIN sent' : sent'[j].id = last'.frame.v[i].id

C14_ItemsIsolated == [][C14_Step]_vars

\* the items of a batch dispatched when its loop has gone round k times
DoneItems(l, k) == SubSeq(l.frame.v, 1, k)

\* C15: the replies to a batch are written in the order of its items: the
\* k-th frame written answers the k-th item that carries an id; when the
\* method of the next item is entered the reply of every item before it
\* that carries an id has been written, and when the batch went through
\* there is one reply for each of them
C15_Step ==
    /\ IsBatch(last')
       => /\ Len(sent') <= Len(WithId(last'.frame.v))
          /\ \A j \in DOMAIN sent' : sent'[j].id = WithId(last'.frame.v)[j].id
          /\ last'.ok => Len(sent') = Len(WithId(last'.frame.v))
    /\ last'.op = "batch"
       => /\ Len(sent') = Len(WithId(DoneItems(last', last'.done)))
          /\ \A j \in DOMAIN sent' :
                sent'[j].id = WithId(DoneItems(last', last'.done))[j].id

C15_BatchOrder == [][C15_Step]_vars

\* a batch of fail (id 1), a notification and ping (id 0): the error reply to
\* fail was written first, then the result of ping
C15_Witness ==
    /\ IsBatch(last)
    /\ Len(last.frame.v) = 3
    /\ last.ok
    /\ Len(sent) = 2
    /\ sent[1].id = JInt(1) /\ sent[1].error = JStr("failed")
    /\ sent[2].id = JInt(0) /\ sent[2].result = JStr("pong")

\* C16: after settimeout(operation, t), with m the maximum of the operation:
\* when m is not None the socket's timeout is a number no larger than m, it is
\* m when t is None or larger than m and t otherwise (0 stays 0); when m is
\* None it is t
C16_TimeoutClamped ==
    last.op = "settimeout"
    => /\ maxtimeout[last.operation] # JNull
          => /\ timeout # JNull
             /\ timeout.v <= maxtimeout[last.operation].v
             /\ (last.t = JNull \/ last.t.v > maxtimeout[last.operation].v)
                => timeout = maxtimeout[last.operation]
             /\ (last.t # JNull /\ last.t.v <= maxtimeout[last.operation].v)
                => timeout = last.t
             /\ last.t = JInt(0) => timeout = JInt(0)
       /\ maxtimeout[last.operation] = JNull => timeout = last.t

\* the maximum for write was set to 2 and a write timeout of 3 was asked for
C16_Witness ==
    /\ last = [op |-> "settimeout", operation |-> "write", t |-> JInt(3)]
    /\ maxtimeout["write"] = JInt(2)
    /\ maxtimeout["read"] = JNull
    /\ timeout = JInt(2)

\* the bytes recv has returned so far
Received == SubSeq(stream, 1, Len(stream) - Len(net))

\* the bytes read and not yet returned as a line
Pending == IF rd.pc = "recv" THEN rd.streambuffer ELSE buffer

\* the newlines of a sequence of bytes
Newlines(b) == Cardinality({i \in DOMAIN b : b[i] = NL})

\* C17: however the stream is cut into recv chunks, the lines read_line has
\* returned are the newline-separated segments of the bytes received, in
\* order and without their newlines, and the buffer holds exactly the bytes
\* after the last of them (at the end of the stream, where read_line fails
\* with EofError, they are a prefix of the bytes received); recv is called
\* only when no whole line is buffered, and when serve calls recv it has read
\* every line that has arrived
StreamEnded == peer = "closed" /\ net = <<>>

C17_Framing ==
    /\ \A i \in DOMAIN lines : Newlines(lines[i]) = 0
    /\ IF StreamEnded
       THEN /\ Len(Framed(lines) \o Pending) <= Len(Received)
            /\ Framed(lines) \o Pending
                  = SubSeq(Received, 1, Len(Framed(lines) \o Pending))
       ELSE Framed(lines) \o Pending = Received
    /\ rd.pc = "recv" => Newlines(Pending) = 0
    /\ (rd.op = "serve" /\ rd.pc = "recv") => Len(lines) = Newlines(Received)

\* two lines came in one chunk and one call of dispatch_until_empty
\* dispatched both
C17_Witness ==
    /\ rd.pc = "idle" /\ rd.op = "due"
    /\ rd.ret = [kind |-> "returned", count |-> 2]
    /\ lines = <<<<"o">>, <<"o">>>>
    /\ stream = <<"o", NL, "o", NL>>
    /\ buffer = <<>>

\* C18 (as claimed): a response item whose id matches no outstanding request
\* leaves the request table as it is and the connection open; when the item
\* carried no id an "Unknown format" error reply is written, otherwise
\* nothing is
C18_Step ==
    (IsResponse(last')
        /\ ~(ItemId(last'.frame.v).t = "int" /\ ItemId(last'.frame.v).v \in DOMAIN requests))
    => /\ requests' = requests
       /\ sck' = sck
       /\ IF ItemId(last'.frame.v) = JNull
          THEN /\ Len(sent') = 1
               /\ sent'[1].error = JStr("Unknown format")
          ELSE sent' = <<>>

C18_UnknownResponse == [][C18_Step]_vars

\* the invocation names an object that is not in the registry
UnknownObject(l, objs) ==
    IsInvocation(l) /\ Len(l.frame.v.method) > 1 /\ l.frame.v.method[1] \notin DOMAIN objs

\* C19 (as claimed): an invocation on an object name that is not in the
\* registry is answered by an error reply carrying its id when the id is not
\* null and by nothing when it is; the connection stays open
C19_Step ==
    UnknownObject(last', objects)
    => /\ sck' = sck
       /\ IF ItemId(last'.frame.v) # JNull
          THEN /\ Len(sent') = 1
               /\ sent'[1].id = last'.frame.v.id
               /\ sent'[1].error # JNull
          ELSE sent' = <<>>

C19_UnknownObjectReply == [][C19_Step]_vars

\* C20 (as claimed): <name>.__delete__ for a name that was registered and
\* has been removed leaves the registry as it is and completes like the first
\* removal: no error, and a reply with null result and null error when the
\* item has an id
C20_Step ==
    (UnknownObject(last', objects)
        /\ last'.frame.v.method[2] = "__delete__"
        /\ last'.frame.v.method[1] \in PeerNames)
    => /\ objects' = objects
       /\ last'.ok
       /\ ItemId(last'.frame.v) # JNull
          => sent' = <<[result |-> JNull, error |-> JNull, id |-> last'.frame.v.id]>>

C20_DeleteIdempotent == [][C20_Step]_vars

\* the calls of get_id that have returned: (thread, number of the call)
GetIdCalls == {<<t, k>> : t \in Threads, k \in 1..MaxGets}

Returned(call) == call[2] <= Len(th[call[1]].got)

IdOf(call) == th[call[1]].got[call[2]]

\* C21: get_id is atomic: no two calls of get_id on one connection return
\* the same value, whatever threads they run on, and no increment is lost:
\* once every call has returned, _id is the number of calls made.
C21_GetIdAtomic ==
    /\ \A a \in GetIdCalls, b \in GetIdCalls :
          (Returned(a) /\ Returned(b) /\ a # b) => IdOf(a) # IdOf(b)
    /\ (\A t \in Threads : th[t].pc = "idle") =>
          id = Len(th["r"].got) + Len(th["t1"].got) + Len(th["t2"].got)

\* a step in which thread t calls send (lines 581-596): bytes leave the
\* outbound buffer, or write_line ends on the result of send
Sends(t) ==
    /\ th[t].pc = "send"
    /\ (wbuffer' # wbuffer \/ th'[t].pc = "idle")

\* a step in which the reading thread gets the lock and calls recv (lines
\* 657-659, 675)
Recvs == th["r"].pc = "racquire" /\ th'["r"].pc = "recv"

\* C22: whatever the interleaving of the reading and the writing threads,
\* every send runs with the clamped write timeout on the socket and every
\* recv with the clamped read timeout its read asked for.
C22_Step ==
    /\ \A t \in Threads : Sends(t) => timeout = settimeout("write", JNull)
    /\ Recvs => timeout = settimeout("read", th["r"].t0)

C22_OwnTimeout == [][C22_Step]_vars

\* the threads that only write
Writers == Threads \ {"r"}

\* C23: the read path takes no lock: while the reading thread waits in recv
\* inside read_and_dispatch, a thread that has called write and waits for
\* the lock can take it (unless another writer holds it) and send its frame.
C23_ReadBlocksNoWriter ==
    \A t \in Writers :
        (/\ th["r"].pc = "recv"
         /\ th[t].pc = "acquire"
         /\ \A u \in Writers : th[u].pc # "send")
        => ENABLED WriteAcquire(t)

\* the frames the dispatching thread has written, in the order of the lock
OwnLines == SelectSeq(order, LAMBDA l : l \in {NotifyLine, ReplyLine})

\* C24: a handler that notifies its own peer while an invocation is served
\* does not deadlock: the dispatching thread does not hold the socket lock
\* when the method is invoked, the lock it then waits for is free or held by
\* a thread inside write_line, and its notification is written before the
\* reply to the invocation.
C24_HandlerNotifies ==
    /\ th["r"].pc = "handler" => lock # "r"
    /\ (th["r"].pc = "acquire" /\ lock # "") => (lock \in Writers /\ th[lock].pc = "send")
    /\ \A i \in DOMAIN OwnLines :
          OwnLines[i] = IF i % 2 = 1 THEN NotifyLine ELSE ReplyLine
    /\ th["r"].job = "reply" => Len(OwnLines) >= 1

\* the notification and the reply have reached the wire, in this order,
\* while another thread had a frame of its own to write
C24_Witness ==
    /\ th["r"].job = "reply" /\ th["r"].pc = "idle" /\ th["r"].ret = "returned"
    /\ wire = <<"q", NL, "t1", NL, "p", NL>>

\* read_line has returned, with a line or with '', and has not called recv
\* again since
BetweenReads ==
    \/ rd.pc = "idle" /\ rd.ret.kind = "returned"
    \/ rd.pc \in {"dispatch", "acquire", "send", "loop"}

\* C25: no received byte is lost: whenever read_line has returned, also with
\* '' after a timeout that followed a part of a frame, the lines returned so
\* far, each with its newline, followed by the inbound buffer are the bytes
\* received from the socket.
C25_NoByteLost == BetweenReads => Framed(lines) \o buffer = Received

\* C26: a __remoteobject__ name is, when it is emitted, a key of the object
\* registry that holds the instance serialized, also when the peer has sent
\* <name>.__delete__ for that instance before.
C26_Step ==
    \A o \in Objs :
        (Serializes(last', o) /\ Len(sent') = 1)
        => /\ EmittedName(sent'[1]) \in DOMAIN objects'
           /\ objects'[EmittedName(sent'[1])] = o

C26_EmittedNameRegistered == [][C26_Step]_vars

\* C27 (as claimed): once close() has been called on the connection, from
\* whatever thread, a serve loop running on it comes to an end: a read on the
\* closed socket is not reported as 'no data' and retried for ever.
C27_ServeEndsAfterClose ==
    (last.op = "close" /\ last.serving) ~> (rd.op = "serve" /\ rd.pc = "idle")

====
